---- MODULE Spec2Model ----
(***************************************************************************)
(* Empress: an MPRIS media-session client.                                 *)
(*                                                                         *)
(*   src/src/mpris_client.rs  MprisClient: the dispatcher thread, the      *)
(*                            monitoring (poller) thread, the shared       *)
(*                            preferred_player mutex, the two channels.    *)
(*   src/src/ui.rs            build_ui: the 500 ms reconciliation timer,   *)
(*                            update_ui_widgets: labels, art, progress.    *)
(*                                                                         *)
(*   src/src/progress_ring_button.rs  ProgressRingButton::set_progress.    *)
(*                                                                         *)
(* Spec         session resolution: both threads, the preference and its   *)
(*              mutex, the session bus as environment.                     *)
(* SpecCmd      the command path: the UI thread's calls and the            *)
(*              dispatcher thread; SpecCmdFair adds weak fairness of the   *)
(*              dispatcher loop, SpecCmdExit the end of that thread.       *)
(* SpecUI       the reconciliation timer of build_ui, fed with snapshots;  *)
(*              SpecRetry, SpecHist and SpecProgress are the same timer    *)
(*              over a longer time, a long history, and the progress ring. *)
(* SpecInfo     one pass of the poller thread up to get_media_info, over   *)
(*              every outcome of the reads of a session.                   *)
(* SpecPipe     poller thread, channel and reconciliation timer together.  *)
(* SpecThreads  the UI thread, the dispatcher and the poller around the    *)
(*              preferred_player mutex; SpecThreadsFair adds scheduling.   *)
(***************************************************************************)
EXTENDS Integers, Sequences, FiniteSets, TLC

(***************************************************************************)
(* Bounds of the model.                                                    *)
(***************************************************************************)
MaxPlayers == 2
MaxChan == 1
MaxCmds == 2
MaxSnapshots == 3
MaxBuffered == 2
MaxTicks == 4
MaxRetrySnapshots == 2
MaxRetryTicks == 13
MaxPipeTicks == 2
MaxHistTicks == 55
MaxThreadsTicks == 1
MaxProgressTicks == 2

(***************************************************************************)
(* Option<T>: None is the empty sequence, Some(x) the one-element one.     *)
(***************************************************************************)
None == <<>>
Some(x) == <<x>>
IsSome(o) == o # None
Unwrap(o) == o[1]
UnwrapOr(o, d) == IF IsSome(o) THEN o[1] ELSE d

(***************************************************************************)
(* Strings that the code inspects by prefix are sequences of tokens:       *)
(* "http://h/1.png" is <<"http://", "h/1.png">>, "" is <<>>.               *)
(***************************************************************************)
EmptyStr == <<>>
is_empty(s) == s = EmptyStr
starts_with(s, prefix) == Len(s) > 0 /\ s[1] = prefix
strip_prefix(s, prefix) == IF starts_with(s, prefix) THEN Some(Tail(s)) ELSE None

(***************************************************************************)
(* mpris_client.rs: PlayerStatus, MediaInfo, Command.                      *)
(***************************************************************************)
PlayerStatus == {"Stopped", "Playing", "Paused"}
PlayerStatus_default == "Stopped"

\* impl From<PlaybackStatus> for PlayerStatus
PlayerStatus_from(status) ==
    CASE status = "Playing" -> "Playing"
      [] status = "Paused" -> "Paused"
      [] status = "Stopped" -> "Stopped"

MediaInfo(title, artist, album, art_url, status, position, length) ==
    [title |-> title, artist |-> artist, album |-> album, art_url |-> art_url,
     status |-> status, position |-> position, length |-> length]

\* #[derive(Default)] on MediaInfo: every String is String::new(), every
\* Option is None, status is PlayerStatus::default().
MediaInfo_default ==
    MediaInfo("", "", "", None, PlayerStatus_default, None, None)

SeekStepSeconds == 5
MicrosPerSecond == 1000000
SeekOffsets == {(0 - SeekStepSeconds) * MicrosPerSecond, SeekStepSeconds * MicrosPerSecond}

CommandOps ==
    {[tag |-> "PlayPause"], [tag |-> "Next"], [tag |-> "Previous"]}
        \cup {[tag |-> "Seek", offset |-> o] : o \in SeekOffsets}

(***************************************************************************)
(* The session bus (environment): the identities that can be on the bus.   *)
(***************************************************************************)
PlayerNames == <<"vlc", "mpd", "mpv", "spotify">>
Players == {PlayerNames[i] : i \in 1..MaxPlayers}

\* What the queries on one bound session returned on one call: the
\* metadata map (or an error), the playback status (or an error) and the
\* position (or an error).
Metadata(title, artists, album, art_url, length) ==
    [title |-> title, artists |-> artists, album |-> album,
     art_url |-> art_url, length |-> length]

Art1 == <<"http://", "h/1.png">>

FullMetadata == Metadata(Some("A"), Some(<<"X">>), Some("L"), Some(Art1), Some(200))
BareMetadata == Metadata(None, Some(<<>>), None, None, None)

SessionReads ==
    {[metadata |-> Some(FullMetadata), status |-> Some("Playing"), position |-> Some(100)],
     [metadata |-> Some(BareMetadata), status |-> None, position |-> None],
     [metadata |-> None, status |-> Some("Paused"), position |-> Some(100)]}

\* Variant: the status is only taken when the metadata could be read.
get_media_info_status_with_metadata(rd) ==
    LET metadata == rd.metadata
        status == IF IsSome(metadata) /\ IsSome(rd.status)
                  THEN PlayerStatus_from(Unwrap(rd.status))
                  ELSE PlayerStatus_default
        m == Unwrap(metadata)
        title == IF IsSome(metadata) THEN UnwrapOr(m.title, "Unknown")
                 ELSE "No media playing"
        artist == IF IsSome(metadata)
                  THEN (IF IsSome(m.artists) /\ Len(Unwrap(m.artists)) > 0
                        THEN Unwrap(m.artists)[1] ELSE "Unknown Artist")
                  ELSE ""
        album == IF IsSome(metadata) THEN UnwrapOr(m.album, "") ELSE ""
        art_url == IF IsSome(metadata) THEN m.art_url ELSE None
        position == rd.position
        length == IF IsSome(metadata) THEN m.length ELSE None
    IN MediaInfo(title, artist, album, art_url, status, position, length)

\* MprisClient::get_media_info
get_media_info(rd) ==
    LET metadata == rd.metadata
        status == IF IsSome(rd.status) THEN PlayerStatus_from(Unwrap(rd.status))
                  ELSE PlayerStatus_default
        m == Unwrap(metadata)
        title == IF IsSome(metadata) THEN UnwrapOr(m.title, "Unknown")
                 ELSE "No media playing"
        artist == IF IsSome(metadata)
                  THEN (IF IsSome(m.artists) /\ Len(Unwrap(m.artists)) > 0
                        THEN Unwrap(m.artists)[1] ELSE "Unknown Artist")
                  ELSE ""
        album == IF IsSome(metadata) THEN UnwrapOr(m.album, "") ELSE ""
        art_url == IF IsSome(metadata) THEN m.art_url ELSE None
        position == rd.position
        length == IF IsSome(metadata) THEN m.length ELSE None
    IN MediaInfo(title, artist, album, art_url, status, position, length)

VARIABLES
    bus_ok,            \* PlayerFinder::new() succeeds
    running,           \* identities of the players on the bus
    active,            \* Option: the player find_active() binds
    preferred_player,  \* Arc<Mutex<Option<String>>>: the value
    pref_lock,         \* ... and who holds the mutex
    command_queue,     \* channel::<Command>(), sender to receiver
    n_sent,            \* commands enqueued so far
    applied,           \* commands applied to a session, in order
    dequeued,          \* every command try_recv() returned, with the handle it met
    send_results,      \* what each play_pause/next/previous/seek call returned
    d_pc,              \* dispatcher thread: position in its loop
    player,            \* dispatcher thread: `player: Option<Player>`
    d_path,            \* dispatcher thread: how this iteration assigned `player`
    p_pc,              \* poller thread: position in its loop
    p_player,          \* poller thread: `player_opt`
    p_info,            \* poller thread: `info`
    p_read,            \* poller thread: what get_media_info's queries returned (Option)
    p_path,            \* poller thread: how this iteration resolved `player_opt`
    info_channel,      \* channel(), info_sender to info_receiver
    info_receiver_alive, \* the reconciliation closure, which owns the receiver, exists
    produced,          \* every snapshot the poller has sent, in order
    \* build_ui: the state the reconciliation closure captures
    last_art_url,      \* Option<String>
    last_status,       \* PlayerStatus
    last_title,        \* String
    last_artist,       \* String
    initial_load_done, \* bool
    history,           \* VecDeque<StatusHistoryEntry>, front first
    album_art,         \* gtk::Picture: Option, the reference whose texture is shown
    art_visible,       \* art_container.is_visible()
    labels,            \* title/artist/album labels and the play-pause icon
    progress,          \* ProgressRingButton: the `progress` cell
    now,               \* Instant::now() on the UI thread, in ms since start
    \* history variables of the model
    processed,         \* every snapshot the reconciliation has processed, in order
    attempts,          \* every entry of update_ui_widgets' art branch, in order
    trace              \* the last tick: one record per snapshot it processed

mprisVars == <<bus_ok, running, active, preferred_player, pref_lock, command_queue,
               n_sent, applied, dequeued, send_results, d_pc, player, d_path, p_pc,
               p_player, p_info, p_read, p_path, info_channel, info_receiver_alive,
               produced>>

uiVars == <<last_art_url, last_status, last_title, last_artist, initial_load_done,
            history, album_art, art_visible, labels, progress, now, processed, attempts,
            trace>>

vars == <<mprisVars, uiVars>>

(***************************************************************************)
(* The external session capability (mpris::PlayerFinder), as the code      *)
(* calls it: each call answers from the bus as it is at that moment.       *)
(***************************************************************************)
\* finder.find_active().ok()
find_active == IF bus_ok THEN active ELSE None

\* finder.find_by_name(preferred).ok()
find_by_name(name) == IF bus_ok /\ name \in running THEN Some(name) ELSE None

\* The three queries of get_media_info on a bound session; they all fail
\* once the session has left the bus.
FailedRead == [metadata |-> None, status |-> None, position |-> None]
session_reads(p) == IF bus_ok /\ p \in running THEN SessionReads ELSE {FailedRead}

ActiveOk == (running = {} /\ active = None) \/ (IsSome(active) /\ Unwrap(active) \in running)

InitMpris ==
    /\ bus_ok \in BOOLEAN
    /\ running \in SUBSET Players
    /\ active \in {None} \cup {Some(p) : p \in Players}
    /\ ActiveOk
    /\ preferred_player = None
    /\ pref_lock = "free"
    /\ command_queue = <<>>
    /\ n_sent = 0
    /\ applied = <<>>
    /\ dequeued = <<>>
    /\ send_results = <<>>
    /\ d_pc = "finder"
    /\ player = None
    /\ d_path = "stale"
    /\ p_pc = "finder"
    /\ p_player = None
    /\ p_info = MediaInfo_default
    /\ p_read = None
    /\ p_path = "none"
    /\ info_channel = <<>>
    /\ info_receiver_alive = TRUE
    /\ produced = <<>>

envVars == <<bus_ok, running, active>>
dispVars == <<d_pc, player, d_path>>
pollVars == <<p_pc, p_player, p_info, p_read, p_path>>
cmdVars == <<command_queue, n_sent, applied, dequeued, send_results>>
chanVars == <<info_channel, info_receiver_alive, produced>>

(***************************************************************************)
(* Environment: players come and go, focus moves, the bus connection can   *)
(* be refused.                                                             *)
(***************************************************************************)
PlayerAppear(p) ==
    /\ p \notin running
    /\ running' = running \cup {p}
    /\ active' = IF running = {} THEN Some(p) ELSE active
    /\ UNCHANGED <<uiVars, bus_ok, preferred_player, pref_lock, cmdVars, dispVars, pollVars,
                   chanVars>>

PlayerQuit(p) ==
    /\ p \in running
    /\ running' = running \ {p}
    /\ IF active # Some(p) THEN active' = active
       ELSE IF running' = {} THEN active' = None
       ELSE active' \in {Some(q) : q \in running'}
    /\ UNCHANGED <<uiVars, bus_ok, preferred_player, pref_lock, cmdVars, dispVars, pollVars,
                   chanVars>>

FocusChange(p) ==
    /\ p \in running
    /\ active # Some(p)
    /\ active' = Some(p)
    /\ UNCHANGED <<uiVars, bus_ok, running, preferred_player, pref_lock, cmdVars, dispVars,
                   pollVars, chanVars>>

BusChange ==
    /\ bus_ok' = ~bus_ok
    /\ UNCHANGED <<uiVars, running, active, preferred_player, pref_lock, cmdVars, dispVars,
                   pollVars, chanVars>>

(***************************************************************************)
(* UI thread: the calls into MprisClient.                                  *)
(***************************************************************************)
\* Variant: the guard outlives the block it was taken in.
drop_guard_kept(l) == l

\* `pref` goes out of scope at the end of the `if let Ok(finder)` block:
\* the MutexGuard is dropped and the mutex is free again.
drop_guard(l) == "free"

\* Variant: the mutex lets a thread in whoever holds it.
lock_returns_always(l) == TRUE

\* preferred_player.lock().unwrap() returns once no other thread holds the
\* guard; until then the caller waits.
lock_returns(l) == l = "free"

\* MprisClient::set_preferred_player
set_preferred_player(player_name) ==
    /\ lock_returns(pref_lock)
    /\ player_name # preferred_player
    /\ preferred_player' = player_name
    /\ UNCHANGED <<uiVars, envVars, pref_lock, cmdVars, dispVars, pollVars, chanVars>>

\* command_receiver is owned by the dispatcher thread's closure: it exists
\* as long as that thread does.
command_receiver_alive == d_pc # "exited"

\* Variant: the result of send is thrown away and Ok(()) returned.
send_result_ignored(alive) == "Ok"

\* self.command_sender.send(Command::..)?; Ok(())
\* Sender::send fails exactly when the receiver has been dropped.
send_result(alive) == IF alive THEN "Ok" ELSE "Err"

\* MprisClient::play_pause / next / previous / seek.  The call does not
\* block: it returns with the command still in the channel.
\* Variant: the channel hands out the newest command first.
queue_after_send_front(q, cmd) == <<cmd>> \o q

\* self.command_sender.send(cmd): the mpsc channel of MprisClient::new is
\* first-in first-out, the command joins it behind those already waiting.
queue_after_send(q, cmd) == Append(q, cmd)

send_command(op) ==
    /\ Len(send_results) < MaxCmds
    /\ LET alive == command_receiver_alive
       IN /\ IF alive
             THEN /\ n_sent' = n_sent + 1
                  /\ command_queue' = queue_after_send(command_queue,
                                                       [id |-> n_sent + 1, op |-> op])
             ELSE UNCHANGED <<n_sent, command_queue>>
          /\ send_results' = Append(send_results,
                                    [op |-> op, alive |-> alive,
                                     id |-> IF alive THEN n_sent + 1 ELSE 0,
                                     result |-> send_result(alive)])
    /\ UNCHANGED <<uiVars, envVars, preferred_player, pref_lock, applied, dequeued, dispVars,
                   pollVars, chanVars>>

(***************************************************************************)
(* Dispatcher thread (MprisClient::new, the spawned loop).  Positions:     *)
(*   finder    PlayerFinder::new()                                         *)
(*   lock      preferred_player_clone.lock()                               *)
(*   by_name   finder.find_by_name(preferred)     (guard `pref` alive)     *)
(*   fallback  finder.find_active() after a miss  (guard `pref` alive)     *)
(*   active    finder.find_active(), no preference (guard `pref` alive)    *)
(*   recv      command_receiver.try_recv(), then thread::sleep(100 ms)     *)
(* The guard `pref` is a local of the `if let Ok(finder)` block: it is     *)
(* dropped where that block ends, after the find calls.                    *)
(***************************************************************************)
\* if let Some(ref preferred) = *pref { ... } else { ... }
after_lock(pref) == IF IsSome(pref) THEN "by_name" ELSE "active"

\* Variant: the else branch is missing, the old handle stays.
d_assign_active_keep(r) == IF IsSome(r) THEN Some(Unwrap(r)) ELSE player

\* Variant: a missed name is an error, nothing is bound.
d_assign_fallback_none(r) == None

\* Variant: a command that meets no session goes back into the channel.
queue_after_recv_requeue(q, p) == IF IsSome(p) THEN Tail(q) ELSE Append(Tail(q), Head(q))

\* Variant: the command is applied, and applied again.
applied_after_twice(a, cmd, p, fresh) ==
    IF IsSome(p)
    THEN a \o << [cmd |-> cmd, to |-> Unwrap(p), fresh |-> fresh],
                 [cmd |-> cmd, to |-> Unwrap(p), fresh |-> fresh] >>
    ELSE a

\* Variant: `while let`, the iteration takes everything that is queued.
queue_after_recv_all(q, p) == <<>>

\* command_receiver.try_recv() returned Ok(cmd): the oldest command has left
\* the channel, whatever `player` (p) is.
queue_after_recv(q, p) == Tail(q)

\* if let Some(ref p) = player { match cmd { .. } }: one call on the handle,
\* or nothing at all.
applied_after(a, cmd, p, fresh) ==
    IF IsSome(p)
    THEN Append(a, [cmd |-> cmd, to |-> Unwrap(p), fresh |-> fresh])
    ELSE a

\* if let Some(active_player) = finder.find_active().ok() { player = Some(..) }
\* else { player = None }                      (no preferred player)
d_assign_active(r) == IF IsSome(r) THEN Some(Unwrap(r)) ELSE None

\* else if let Some(active_player) = finder.find_active().ok() { .. } else { None }
d_assign_fallback(r) == IF IsSome(r) THEN Some(Unwrap(r)) ELSE None

D_NewFinder ==
    /\ d_pc = "finder"
    /\ d_path' = "stale"
    /\ d_pc' = IF bus_ok THEN "lock" ELSE "recv"
    /\ UNCHANGED <<uiVars, envVars, preferred_player, pref_lock, cmdVars, player, pollVars,
                   chanVars>>

D_Lock ==
    /\ d_pc = "lock"
    /\ lock_returns(pref_lock)
    /\ pref_lock' = "dispatcher"
    /\ d_pc' = after_lock(preferred_player)
    /\ UNCHANGED <<uiVars, envVars, preferred_player, cmdVars, player, d_path, pollVars,
                   chanVars>>

D_FindByName ==
    /\ d_pc = "by_name"
    /\ LET r == find_by_name(Unwrap(preferred_player))
       IN IF IsSome(r)
          THEN /\ player' = Some(Unwrap(r))
               /\ d_path' = "named"
               /\ pref_lock' = drop_guard(pref_lock)
               /\ d_pc' = "recv"
          ELSE /\ d_pc' = "fallback"
               /\ UNCHANGED <<player, d_path, pref_lock>>
    /\ UNCHANGED <<uiVars, envVars, preferred_player, cmdVars, pollVars, chanVars>>

D_Fallback ==
    /\ d_pc = "fallback"
    /\ player' = d_assign_fallback(find_active)
    /\ d_path' = "fallback"
    /\ pref_lock' = drop_guard(pref_lock)
    /\ d_pc' = "recv"
    /\ UNCHANGED <<uiVars, envVars, preferred_player, cmdVars, pollVars, chanVars>>

D_FindActive ==
    /\ d_pc = "active"
    /\ player' = d_assign_active(find_active)
    /\ d_path' = "auto"
    /\ pref_lock' = drop_guard(pref_lock)
    /\ d_pc' = "recv"
    /\ UNCHANGED <<uiVars, envVars, preferred_player, cmdVars, pollVars, chanVars>>

\* if let Ok(cmd) = command_receiver.try_recv() { if let Some(ref p) = player { .. } }
D_TryRecv ==
    /\ d_pc = "recv"
    /\ IF command_queue # <<>>
       THEN /\ command_queue' = queue_after_recv(command_queue, player)
            /\ applied' = applied_after(applied, Head(command_queue), player,
                                        d_path # "stale")
            /\ dequeued' = Append(dequeued, [id |-> Head(command_queue).id,
                                             to |-> player,
                                             resolved |-> IsSome(player)
                                                            /\ d_path # "stale"])
       ELSE UNCHANGED <<command_queue, applied, dequeued>>
    /\ d_pc' = "finder"
    /\ UNCHANGED <<uiVars, envVars, preferred_player, pref_lock, n_sent, send_results, player,
                   d_path, pollVars, chanVars>>

Dispatcher ==
    D_NewFinder \/ D_Lock \/ D_FindByName \/ D_Fallback \/ D_FindActive \/ D_TryRecv

\* The dispatcher thread ends: a panic inside PlayerFinder::new() unwinds
\* the closure, and what it owned (command_receiver with everything still
\* queued, `player`) is dropped.  The loop itself has no exit.
D_Exit ==
    /\ d_pc = "finder"
    /\ d_pc' = "exited"
    /\ command_queue' = <<>>
    /\ player' = None
    /\ d_path' = "stale"
    /\ UNCHANGED <<uiVars, envVars, preferred_player, pref_lock, n_sent, applied, dequeued,
                   send_results, pollVars, chanVars>>

(***************************************************************************)
(* Poller thread (MprisClient::start_monitoring, the spawned loop).        *)
(*   finder, lock, by_name, fallback, active as in the dispatcher;         *)
(*   info      Self::get_media_info(&player)       (guard `pref` alive)    *)
(*   send      info_sender.send(info), then thread::sleep(500 ms)          *)
(* The guard `pref` is a local of the block whose value is `info`: it is   *)
(* dropped after get_media_info has returned.                              *)
(***************************************************************************)
\* finder.find_active().ok()                   (no preferred player)
p_resolve_active(r) == r

\* finder.find_by_name(preferred).ok().or_else(|| finder.find_active().ok())
p_resolve_fallback(r) == r

\* if let Ok(finder) = finder { .. } else { MediaInfo::default() };
\* if let Some(player) = player_opt { .. } else { MediaInfo::default() }
unresolved_info == MediaInfo_default

P_NewFinder ==
    /\ p_pc = "finder"
    /\ UNCHANGED <<p_player, p_read>>
    /\ IF bus_ok
       THEN p_pc' = "lock" /\ UNCHANGED <<p_info, p_path>>
       ELSE p_pc' = "send" /\ p_info' = unresolved_info /\ p_path' = "no_finder"
    /\ UNCHANGED <<uiVars, envVars, preferred_player, pref_lock, cmdVars, dispVars, chanVars>>

P_Lock ==
    /\ p_pc = "lock"
    /\ lock_returns(pref_lock)
    /\ pref_lock' = "poller"
    /\ p_pc' = after_lock(preferred_player)
    /\ UNCHANGED <<uiVars, envVars, preferred_player, cmdVars, dispVars, p_player, p_info,
                   p_read, p_path, chanVars>>

\* player_opt is known: bind it and go on to get_media_info, or give up.
P_Resolved(r, path) ==
    /\ p_player' = r
    /\ p_path' = path
    /\ IF IsSome(r)
       THEN p_pc' = "info" /\ UNCHANGED <<p_info, pref_lock>>
       ELSE p_pc' = "send" /\ p_info' = unresolved_info /\ pref_lock' = drop_guard(pref_lock)

P_FindByName ==
    /\ p_pc = "by_name"
    /\ LET r == find_by_name(Unwrap(preferred_player))
       IN IF IsSome(r) THEN P_Resolved(r, "named")
          ELSE p_pc' = "fallback" /\ UNCHANGED <<p_player, p_info, p_path, pref_lock>>
    /\ UNCHANGED <<uiVars, envVars, preferred_player, cmdVars, dispVars, chanVars, p_read>>

P_Fallback ==
    /\ p_pc = "fallback"
    /\ P_Resolved(p_resolve_fallback(find_active), "fallback")
    /\ UNCHANGED <<uiVars, envVars, preferred_player, cmdVars, dispVars, chanVars, p_read>>

P_FindActive ==
    /\ p_pc = "active"
    /\ P_Resolved(p_resolve_active(find_active), "auto")
    /\ UNCHANGED <<uiVars, envVars, preferred_player, cmdVars, dispVars, chanVars, p_read>>

\* let info = Self::get_media_info(&player), the queries answering one of reads
P_GetMediaInfoFrom(reads) ==
    /\ p_pc = "info"
    /\ \E rd \in reads : p_info' = get_media_info(rd) /\ p_read' = Some(rd)
    /\ pref_lock' = drop_guard(pref_lock)
    /\ p_pc' = "send"
    /\ UNCHANGED <<uiVars, envVars, preferred_player, cmdVars, dispVars, p_player, p_path,
                   chanVars>>

P_GetMediaInfo == P_GetMediaInfoFrom(session_reads(Unwrap(p_player)))

\* Variant: a failed send is ignored and the loop goes round again.
after_send_ignore(is_err) == "finder"

\* if info_sender.send(info).is_err() { break; }  thread::sleep(500 ms)
after_send(is_err) == IF is_err THEN "done" ELSE "finder"

\* info_sender.send(info): `info` is moved into the channel and the locals
\* of the iteration are gone; send fails exactly when the receiver has been
\* dropped.  The channel is unbounded; the model stops the poller at
\* max_chan buffered snapshots.
P_Send(max_chan) ==
    /\ p_pc = "send"
    /\ IF info_receiver_alive
       THEN /\ Len(info_channel) < max_chan
            /\ info_channel' = Append(info_channel, p_info)
            /\ produced' = Append(produced, p_info)
       ELSE UNCHANGED <<info_channel, produced>>
    /\ p_info' = MediaInfo_default
    /\ p_read' = None
    /\ p_player' = None
    /\ p_path' = "none"
    /\ p_pc' = after_send(~info_receiver_alive)
    /\ UNCHANGED <<uiVars, envVars, preferred_player, pref_lock, cmdVars, dispVars,
                   info_receiver_alive>>

PollerLoop(max_chan) ==
    P_NewFinder \/ P_Lock \/ P_FindByName \/ P_Fallback \/ P_FindActive
        \/ P_GetMediaInfo \/ P_Send(max_chan)

Poller == PollerLoop(MaxChan)

(***************************************************************************)
(* build_ui: the reconciliation timer (glib::timeout_add_local, 500 ms)    *)
(* and update_ui_widgets.  Everything below runs on the GTK main thread;   *)
(* the Arc<Mutex<..>> cells the closure captures are locked by that thread *)
(* alone, so every `if let Ok(..) = cell.lock()` takes its Ok branch.      *)
(***************************************************************************)
TickMs == 500
HistoryCapacity == 50

Art2 == <<"file://", "/tmp/a%20b.png">>

UiInfo(title, artist, art_url, status) ==
    MediaInfo(title, artist, "", art_url, status, None, None)

\* The snapshots the timer is fed with.
SnapshotInputs ==
    {MediaInfo_default,
     UiInfo("A", "X", Some(Art1), "Playing"),
     UiInfo("A", "X", Some(Art1), "Paused"),
     UiInfo("B", "X", Some(Art1), "Playing"),
     UiInfo("A", "X", None, "Playing"),
     UiInfo("A", "X", Some(EmptyStr), "Playing"),
     UiInfo("A", "Y", Some(Art2), "Playing")}

StatusHistoryEntry(status, title, artist, timestamp) ==
    [status |-> status, title |-> title, artist |-> artist, timestamp |-> timestamp]

\* A Duration is its length in milliseconds.  An f64 the progress
\* computation produces is the exact fraction num/den.
Frac(n, d) == [num |-> n, den |-> d]
FracZero == Frac(0, 1)
FracOne == Frac(1, 1)
FracLe(a, b) == a.num * b.den <= b.num * a.den
FracEq(a, b) == a.num * b.den = b.num * a.den

\* Duration::as_secs: whole seconds, the fraction dropped.
as_secs(d) == d \div 1000

\* Variant: the value is stored as it comes.
set_progress_unclamped(x) == x

\* ProgressRingButton::set_progress: progress.clamp(0.0, 1.0) is stored.
set_progress(x) ==
    IF FracLe(x, FracZero) THEN FracZero
    ELSE IF FracLe(FracOne, x) THEN FracOne
    ELSE x

\* update_ui_widgets, the progress block: the value handed to set_progress.
progress_of(position, length) ==
    IF IsSome(position) /\ IsSome(length)
    THEN (IF as_secs(Unwrap(length)) > 0
          THEN Frac(Unwrap(position), Unwrap(length))
          ELSE FracZero)
    ELSE FracZero

InitUi ==
    /\ last_art_url = None
    /\ last_status = "Stopped"
    /\ last_title = ""
    /\ last_artist = ""
    /\ initial_load_done = FALSE
    /\ history = <<>>
    /\ album_art = None
    /\ art_visible = FALSE
    /\ labels = [title |-> "No media playing", artist |-> "", album |-> "",
                 artist_visible |-> TRUE, album_visible |-> TRUE,
                 icon_name |-> "media-playback-start-symbolic"]
    /\ progress = FracZero
    /\ now = 0
    /\ processed = <<>>
    /\ attempts = <<>>
    /\ trace = <<>>

\* The closure's captured state, as one record the drain loop threads through.
UiState ==
    [last_art_url |-> last_art_url, last_status |-> last_status,
     last_title |-> last_title, last_artist |-> last_artist,
     initial_load_done |-> initial_load_done, history |-> history,
     album_art |-> album_art, art_visible |-> art_visible, labels |-> labels,
     progress |-> progress, processed |-> processed, attempts |-> attempts, trace |-> <<>>]

\* Variant: the first load is not forced.
force_art_update_no_initial(is_initial, url_changed, title_changed, artist_changed) ==
    url_changed \/ title_changed \/ artist_changed

\* Variant: the art reference is never remembered.
last_art_url_not_stored(last, changed, art_url) == last

\* Variant: a changed art reference alone forces nothing.
force_art_update_no_url(is_initial, url_changed, title_changed, artist_changed) ==
    is_initial \/ title_changed \/ artist_changed

\* Variant: the history grows without limit.
push_history_unbounded(h, entry) == <<entry>> \o h

\* Variant: the newest snapshot in the channel is taken first.
try_recv_newest(chan) ==
    [info |-> chan[Len(chan)], rest |-> SubSeq(chan, 1, Len(chan) - 1)]

\* Variant: the art is keyed on the reference alone.
force_art_update_url_only(is_initial, url_changed, title_changed, artist_changed) ==
    is_initial \/ url_changed

\* Variant: the status of a logged snapshot is not remembered.
observed_after_no_status(st, info, append) ==
    [last_status |-> st.last_status,
     last_title |-> IF append THEN info.title ELSE st.last_title,
     last_artist |-> IF append THEN info.artist ELSE st.last_artist]

\* Variant: only a change of status is logged.
history_changed_status_only(status_changed, title_changed, artist_changed) == status_changed

\* Variant: every snapshot is logged.
history_changed_always(status_changed, title_changed, artist_changed) == TRUE

\* let force_art_update = is_initial || url_changed || title_changed || artist_changed;
force_art_update(is_initial, url_changed, title_changed, artist_changed) ==
    is_initial \/ url_changed \/ title_changed \/ artist_changed

\* update_ui_widgets, `if force_art_update { .. }`: which way the art
\* reference is loaded.
art_kind(art_url) ==
    IF ~IsSome(art_url) \/ is_empty(Unwrap(art_url)) THEN "absent"
    ELSE IF starts_with(Unwrap(art_url), "http://") \/ starts_with(Unwrap(art_url), "https://")
    THEN "remote"
    ELSE "local"

\* Variant: a failed load clears the picture and leaves the container shown.
art_after_failure_shown(art_url, ok) ==
    IF art_kind(art_url) = "absent" THEN [album_art |-> None, art_visible |-> FALSE]
    ELSE IF ok THEN [album_art |-> art_url, art_visible |-> TRUE]
    ELSE [album_art |-> None, art_visible |-> TRUE]

\* update_ui_widgets, the art branch: the picture and the container after
\* it.  `ok` is whether the download (or the file read) and the decoding
\* succeeded.
art_after(art_url, ok) ==
    IF art_kind(art_url) = "absent" THEN [album_art |-> None, art_visible |-> FALSE]
    ELSE IF ok THEN [album_art |-> art_url, art_visible |-> TRUE]
    ELSE [album_art |-> None, art_visible |-> FALSE]

\* update_ui_widgets, the labels and the play-pause icon.
labels_after(info) ==
    [title |-> info.title, artist |-> info.artist, album |-> info.album,
     artist_visible |-> info.artist # "", album_visible |-> info.album # "",
     icon_name |-> IF info.status = "Playing" THEN "media-playback-pause-symbolic"
                   ELSE "media-playback-start-symbolic"]

\* history.push_front(entry); while history.len() > 50 { history.pop_back(); }
push_history(h, entry) ==
    LET pushed == <<entry>> \o h
    IN IF Len(pushed) > HistoryCapacity THEN SubSeq(pushed, 1, HistoryCapacity)
       ELSE pushed

\* if url_changed || title_changed || artist_changed {
\*     if let Some(ref art_url) = info.art_url { *last_url = Some(art_url.clone()); } }
last_art_url_after(last, changed, art_url) ==
    IF changed /\ IsSome(art_url) THEN Some(Unwrap(art_url)) ELSE last

\* if status_changed || title_changed || artist_changed { .. }
history_changed(status_changed, title_changed, artist_changed) ==
    status_changed \/ title_changed \/ artist_changed

\* if status_changed || title_changed || artist_changed {
\*     *last = info.status.clone(); *last = info.title.clone(); *last = info.artist.clone();
observed_after(st, info, append) ==
    IF append
    THEN [last_status |-> info.status, last_title |-> info.title,
          last_artist |-> info.artist]
    ELSE [last_status |-> st.last_status, last_title |-> st.last_title,
          last_artist |-> st.last_artist]

\* The body of `while let Ok(info) = media_receiver.try_recv()`, for one
\* snapshot, at time t.
ProcessSnapshot(st, info, ok, t) ==
    LET title_changed == st.last_title # info.title
        artist_changed == st.last_artist # info.artist
        url_changed == st.last_art_url # info.art_url
        is_initial == ~st.initial_load_done
        force == force_art_update(is_initial, url_changed, title_changed, artist_changed)
        art == IF force THEN art_after(info.art_url, ok)
               ELSE [album_art |-> st.album_art, art_visible |-> st.art_visible]
        n == Len(st.processed) + 1
        attempt == [n |-> n, art_url |-> info.art_url, kind |-> art_kind(info.art_url),
                    loaded |-> art.art_visible,
                    fetched |-> art_kind(info.art_url) # "absent" /\ ok, at |-> t]
        done == IF is_initial THEN TRUE ELSE st.initial_load_done
        status_changed == st.last_status # info.status
        append == history_changed(status_changed, title_changed, artist_changed)
        entry == StatusHistoryEntry(info.status, info.title, info.artist, t)
        new_history == IF append THEN push_history(st.history, entry) ELSE st.history
        new_last_art_url == last_art_url_after(st.last_art_url,
                                url_changed \/ title_changed \/ artist_changed, info.art_url)
        new_progress == set_progress(progress_of(info.position, info.length))
        observed == observed_after(st, info, append)
        step == [info |-> info,
                 before |-> [last_title |-> st.last_title, last_artist |-> st.last_artist,
                             last_status |-> st.last_status,
                             last_art_url |-> st.last_art_url,
                             initial_load_done |-> st.initial_load_done,
                             history |-> st.history],
                 url_changed |-> url_changed,
                 force |-> force,
                 done_after |-> done,
                 last_art_url_after |-> new_last_art_url,
                 fetched |-> force /\ art_kind(info.art_url) # "absent" /\ ok,
                 album_art_before |-> st.album_art,
                 art_visible_before |-> st.art_visible,
                 album_art_after |-> art.album_art,
                 art_visible_after |-> art.art_visible,
                 progress_after |-> new_progress,
                 after |-> observed,
                 history_after |-> new_history]
    IN [last_art_url |-> new_last_art_url,
        last_status |-> observed.last_status,
        last_title |-> observed.last_title,
        last_artist |-> observed.last_artist,
        initial_load_done |-> done,
        history |-> new_history,
        album_art |-> art.album_art,
        art_visible |-> art.art_visible,
        labels |-> labels_after(info),
        progress |-> new_progress,
        processed |-> Append(st.processed, info),
        attempts |-> IF force THEN Append(st.attempts, attempt) ELSE st.attempts,
        trace |-> Append(st.trace, step)]

\* Variant: a tick looks only at the newest snapshot in the channel.
Drain_latest_only(st, chan, oc, i, t) ==
    IF chan = <<>> THEN st
    ELSE ProcessSnapshot(st, chan[Len(chan)], oc[Len(chan)], t)

\* Variant: `if let` in place of `while let`, one snapshot per tick.
recv_count_one(chan) == IF chan = <<>> THEN 0 ELSE 1

\* while let Ok(info) = media_receiver.try_recv(): how many snapshots one
\* firing receives from a channel holding chan.  The loop ends when
\* try_recv finds the channel empty.
recv_count(chan) == Len(chan)

\* media_receiver.try_recv() on a channel that holds something: the oldest
\* snapshot, and what stays behind.
try_recv(chan) == [info |-> Head(chan), rest |-> Tail(chan)]

\* while let Ok(info) = media_receiver.try_recv() { .. }: every buffered
\* snapshot, one try_recv at a time, until the channel is empty; oc[i] is
\* the outcome of the art load of the i-th one received.
RECURSIVE Drain(_, _, _, _, _)
Drain(st, chan, oc, i, t) ==
    IF chan = <<>> THEN st
    ELSE LET r == try_recv(chan)
         IN Drain(ProcessSnapshot(st, r.info, oc[i], t), r.rest, oc, i + 1, t)

\* One firing of the 500 ms timer on the channel content chan; the model
\* follows the clock up to max_ticks firings.
TickOn(chan, oc, max_ticks) ==
    /\ info_receiver_alive
    /\ now < max_ticks * TickMs
    /\ now' = now + TickMs
    /\ LET st == Drain(UiState, SubSeq(chan, 1, recv_count(chan)), oc, 1, now + TickMs)
       IN /\ last_art_url' = st.last_art_url
          /\ last_status' = st.last_status
          /\ last_title' = st.last_title
          /\ last_artist' = st.last_artist
          /\ initial_load_done' = st.initial_load_done
          /\ history' = st.history
          /\ album_art' = st.album_art
          /\ art_visible' = st.art_visible
          /\ labels' = st.labels
          /\ progress' = st.progress
          /\ processed' = st.processed
          /\ attempts' = st.attempts
          /\ trace' = st.trace
    /\ info_channel' = SubSeq(chan, recv_count(chan) + 1, Len(chan))
    /\ UNCHANGED <<envVars, preferred_player, pref_lock, cmdVars, dispVars, pollVars,
                   info_receiver_alive>>

ReconcileTick(oc, max_ticks) ==
    /\ TickOn(info_channel, oc, max_ticks)
    /\ UNCHANGED produced

\* The poller's info_sender.send(info), seen from the receiving side.
Deliver(info, max_snapshots) ==
    /\ info_receiver_alive
    /\ Len(info_channel) < MaxBuffered
    /\ Len(processed) + Len(info_channel) < max_snapshots
    /\ info_channel' = Append(info_channel, info)
    /\ produced' = Append(produced, info)
    /\ UNCHANGED <<uiVars, envVars, preferred_player, pref_lock, cmdVars, dispVars,
                   pollVars, info_receiver_alive>>

\* The poller and the timer in step (both have a 500 ms period): the timer
\* fires on an empty channel into which the poller has just sent info.
SteadyTick(info, oc, max_ticks) ==
    /\ info_channel = <<>>
    /\ TickOn(<<info>>, oc, max_ticks)
    /\ produced' = Append(produced, info)

\* The application closes: the main loop drops the timer closure and with
\* it media_receiver and everything still buffered.
DropInfoReceiver ==
    /\ info_receiver_alive
    /\ info_receiver_alive' = FALSE
    /\ info_channel' = <<>>
    /\ UNCHANGED <<uiVars, envVars, preferred_player, pref_lock, cmdVars, dispVars,
                   pollVars, produced>>

Environment ==
    \/ \E p \in Players : PlayerAppear(p)
    \/ \E p \in Players : PlayerQuit(p)
    \/ \E p \in Players : FocusChange(p)
    \/ BusChange

UiPreference == \E n \in {None} \cup {Some(p) : p \in Players} : set_preferred_player(n)

UiCommands == \E op \in CommandOps : send_command(op)

Init == InitMpris /\ InitUi

\* Session resolution: both threads, the preference and its mutex, the bus.
Next == Environment \/ UiPreference \/ Dispatcher \/ Poller

Spec == Init /\ [][Next]_vars

\* The command path: the UI thread's commands and the dispatcher thread.
NextCmd == Environment \/ UiPreference \/ UiCommands \/ Dispatcher

SpecCmd == Init /\ [][NextCmd]_vars

\* The dispatcher thread is scheduled again and again: its loop has no exit
\* and sleeps 100 ms per iteration.
SpecCmdFair == SpecCmd /\ WF_vars(Dispatcher)

\* The command path when the dispatcher thread can end.
NextCmdExit == NextCmd \/ D_Exit

SpecCmdExit == Init /\ [][NextCmdExit]_vars

\* The reconciliation alone: no player on the bus, the threads not scheduled.
InitUI ==
    /\ InitUi
    /\ InitMpris
    /\ bus_ok
    /\ running = {}

NextUI ==
    \/ \E info \in SnapshotInputs : Deliver(info, MaxSnapshots)
    \/ \E oc \in [1..Len(info_channel) -> BOOLEAN] : ReconcileTick(oc, MaxTicks)

SpecUI == InitUI /\ [][NextUI]_vars

\* The reconciliation over a longer stretch of time, fed with snapshots
\* that carry an art reference.
RetryInputs == {i \in SnapshotInputs : art_kind(i.art_url) # "absent" /\ i.title = "A"}

NextRetry ==
    \/ \E info \in RetryInputs : Deliver(info, MaxRetrySnapshots)
    \/ \E oc \in [1..Len(info_channel) -> BOOLEAN] : ReconcileTick(oc, MaxRetryTicks)

SpecRetry == InitUI /\ [][NextRetry]_vars

\* A long run of the reconciliation: a player that is paused and resumed
\* again and again, poller and timer in step, so that every firing logs one
\* status change.
HistInputs == {i \in SnapshotInputs : i.title = "A" /\ i.artist = "X" /\ i.art_url = Some(Art1)}

NextHist ==
    \E info \in HistInputs, ok \in BOOLEAN :
        /\ info.status # last_status
        /\ SteadyTick(info, <<ok>>, MaxHistTicks)

SpecHist == InitUI /\ [][NextHist]_vars

\* The progress ring: snapshots of one track whose position and length run
\* over absent, zero, less than a second and more, position before and
\* beyond the length.
Durations == {None, Some(0), Some(500), Some(1500), Some(4000)}

ProgressInputs ==
    {MediaInfo("A", "X", "", None, "Playing", position, length) :
        position \in Durations, length \in Durations}

NextProgress ==
    \E info \in ProgressInputs, ok \in BOOLEAN : SteadyTick(info, <<ok>>, MaxProgressTicks)

SpecProgress == InitUI /\ [][NextProgress]_vars

\* One pass of the poller loop up to its send, with get_media_info over
\* everything its three queries can return: the metadata map missing or
\* with any of its entries missing, the artist list empty or not, the
\* status and the position read or not.
MetadataReads ==
    {Metadata(t, a, al, art, len) :
        t \in {None, Some("A")},
        a \in {None, Some(<<>>), Some(<<"X">>), Some(<<"X", "Y">>)},
        al \in {None, Some("L")},
        art \in {None, Some(Art1)},
        len \in {None, Some(200)}}

AllReads ==
    [metadata : {None} \cup {Some(m) : m \in MetadataReads},
     status : {None} \cup {Some(s) : s \in PlayerStatus},
     position : {None, Some(100)}]

NextInfo ==
    \/ UiPreference
    \/ P_NewFinder \/ P_Lock \/ P_FindByName \/ P_Fallback \/ P_FindActive
    \/ P_GetMediaInfoFrom(AllReads)

SpecInfo == Init /\ [][NextInfo]_vars

\* The three threads together on a bus that stays as it was at the start:
\* the UI thread (preference, reconciliation timer), the dispatcher thread
\* and the poller thread.  The UI thread's sends of commands touch neither
\* the mutex nor the poller and are SpecCmd's.  SpecThreadsFair adds the
\* scheduling: every thread that can run does run, a protocol call that
\* has been made returns, and a thread waiting in lock() gets the mutex at
\* one of the moments it is free (each loop sleeps 100 ms or 500 ms per
\* iteration without holding it).
NextThreads ==
    \/ UiPreference
    \/ Dispatcher
    \/ PollerLoop(MaxChan)
    \/ \E oc \in [1..Len(info_channel) -> BOOLEAN] : ReconcileTick(oc, MaxThreadsTicks)

SpecThreads == Init /\ [][NextThreads]_vars

SpecThreadsFair ==
    /\ SpecThreads
    /\ WF_vars(Dispatcher)
    /\ WF_vars(PollerLoop(MaxChan))
    /\ SF_vars(D_Lock)
    /\ SF_vars(P_Lock)

\* The snapshot path end to end, on a bus that stays as it was at the
\* start: the poller thread, the channel, the reconciliation timer, and the
\* application closing.
NextPipe ==
    \/ UiPreference
    \/ PollerLoop(MaxBuffered)
    \/ \E oc \in [1..Len(info_channel) -> BOOLEAN] : ReconcileTick(oc, MaxPipeTicks)
    \/ DropInfoReceiver

SpecPipe == Init /\ [][NextPipe]_vars

(***************************************************************************)
(* Properties.                                                             *)
(***************************************************************************)
\* ObservedState as build_ui constructs it (last_title, last_artist, last_status).
InitialObserved == [title |-> "", artist |-> "", status |-> "Stopped"]

SameObserved(info, o) ==
    info.title = o.last_title /\ info.artist = o.last_artist /\ info.status = o.last_status

AllSame(seq) == \A i \in DOMAIN seq : seq[i] = seq[1]

\* A processed snapshot whose title, artist and status equal ObservedState
\* leaves the history as it was.
NoChangeNoAppend ==
    \A i \in DOMAIN trace :
        SameObserved(trace[i].info, trace[i].before)
            => trace[i].history_after = trace[i].before.history

\* C1, as stated: a processed snapshot whose title, artist and status equal
\* ObservedState appends no history entry, and two identical consecutive
\* snapshots from the initial state leave exactly one history entry.
C1_Original ==
    /\ NoChangeNoAppend
    /\ (Len(processed) = 2 /\ processed[1] = processed[2]) => Len(history) = 1

\* C1, amended: a processed snapshot whose title, artist and status equal
\* ObservedState appends no history entry; two identical consecutive
\* snapshots from the initial state leave exactly one history entry (from
\* the first) when the snapshot differs from the initial ObservedState
\* ("", "", Stopped) in title, artist or status, and none when it does not.
C1_HistoryOnChangeOnly ==
    /\ NoChangeNoAppend
    /\ (Len(processed) = 2 /\ processed[1] = processed[2]) =>
          LET s == processed[1]
              differs == s.title # InitialObserved.title
                            \/ s.artist # InitialObserved.artist
                            \/ s.status # InitialObserved.status
          IN IF differs
             THEN /\ Len(history) = 1
                  /\ history[1].title = s.title
                  /\ history[1].artist = s.artist
                  /\ history[1].status = s.status
             ELSE history = <<>>

\* Two identical snapshots "A"/"X"/Playing have been processed from the
\* initial state, the second one unchanged against ObservedState.
C1_Witness ==
    /\ Len(processed) = 2
    /\ processed[1] = processed[2]
    /\ processed[1].title = "A"
    /\ Len(history) = 1
    /\ trace # <<>>
    /\ SameObserved(trace[Len(trace)].info, trace[Len(trace)].before)

\* C2: when every snapshot processed since the start equals the first one,
\* the art branch of update_ui_widgets has been entered exactly once, for
\* the first snapshot, whatever that load's outcome; it loaded something
\* only if the reference is a non-empty one.
C2_OneArtAttempt ==
    (processed # <<>> /\ AllSame(processed)) =>
        /\ Len(attempts) = 1
        /\ attempts[1].n = 1
        /\ attempts[1].art_url = processed[1].art_url
        /\ attempts[1].kind = "absent" => ~attempts[1].loaded

\* The same remote reference came three times, its one load failed.
C2_Witness ==
    /\ Len(processed) = 3
    /\ AllSame(processed)
    /\ Len(attempts) = 1
    /\ attempts[1].kind = "remote"
    /\ ~attempts[1].loaded

\* C3: a snapshot processed while initial_load_done is false has
\* force_art_update true, whatever its url, title and artist, and
\* initial_load_done is true once it is processed.
C3_InitialForcesArt ==
    /\ \A i \in DOMAIN trace :
          ~trace[i].before.initial_load_done => (trace[i].force /\ trace[i].done_after)
    /\ processed # <<>> => initial_load_done

\* The first snapshot had the url, title and artist of the initial state and
\* was forced all the same.
C3_Witness ==
    /\ trace # <<>>
    /\ ~trace[1].before.initial_load_done
    /\ trace[1].info.art_url = trace[1].before.last_art_url
    /\ trace[1].info.title = trace[1].before.last_title
    /\ trace[1].info.artist = trace[1].before.last_artist
    /\ trace[1].force
    /\ initial_load_done

\* C4: while an art reference is recorded and its load has not succeeded, a
\* retry process with a 3000 ms period attempts it again once 3000 ms have
\* passed since the last attempt; so the last attempt is never two periods
\* old.
C4_RetryAfterInterval ==
    LET RetryIntervalMs == 3000
    IN (IsSome(last_art_url) /\ ~art_visible /\ attempts # <<>>)
          => now - attempts[Len(attempts)].at < 2 * RetryIntervalMs

\* C5: with no preferred player, a resolution of the dispatcher and one of
\* the poller go straight to find_active and bind what it returns, the
\* active session or nothing.
C5_AutoIsFindActive ==
    [][preferred_player = None =>
        /\ (d_pc = "lock" /\ d_pc' # "lock") => d_pc' = "active"
        /\ (d_pc = "active" /\ d_pc' # "active") => player' = find_active
        /\ (p_pc = "lock" /\ p_pc' # "lock") => p_pc' = "active"
        /\ (p_pc = "active" /\ p_pc' # "active") => p_player' = find_active]_vars

\* Both threads have resolved the active player under Auto in their current
\* iteration.
C5_Witness ==
    /\ preferred_player = None
    /\ d_path = "auto" /\ IsSome(player) /\ player = active
    /\ p_path = "auto" /\ IsSome(p_player) /\ p_player = active

\* C6: with a preferred player that is not on the bus, the resolution goes
\* on to find_active in the same iteration and binds what it returns: the
\* active session when there is one, nothing when no player exists.
C6_AbsentNameFallsBack ==
    [][/\ (d_pc = "by_name" /\ d_pc' # "by_name"
              /\ find_by_name(Unwrap(preferred_player)) = None) => d_pc' = "fallback"
       /\ (d_pc = "fallback" /\ d_pc' # "fallback") =>
              /\ player' = find_active
              /\ running = {} => player' = None
       /\ (p_pc = "by_name" /\ p_pc' # "by_name"
              /\ find_by_name(Unwrap(preferred_player)) = None) => p_pc' = "fallback"
       /\ (p_pc = "fallback" /\ p_pc' # "fallback") =>
              /\ p_player' = find_active
              /\ IsSome(find_active) => p_pc' = "info"
              /\ running = {} => (p_player' = None /\ p_pc' = "send")]_vars

\* The preferred player is not on the bus and both threads hold the active
\* one, bound by the fallback of their current iteration.
C6_Witness ==
    /\ IsSome(preferred_player)
    /\ Unwrap(preferred_player) \notin running
    /\ d_path = "fallback" /\ IsSome(player) /\ player = active
    /\ p_path = "fallback" /\ IsSome(p_player) /\ p_player = active

\* The blocking calls on the session bus.
DispatcherInCall == d_pc \in {"by_name", "fallback", "active"}
PollerInCall == p_pc \in {"by_name", "fallback", "active", "info"}

\* C7: neither thread holds the preferred_player mutex while it is in
\* find_by_name, find_active or the queries of get_media_info.
C7_NoLockAcrossCall ==
    /\ ~(pref_lock = "dispatcher" /\ DispatcherInCall)
    /\ ~(pref_lock = "poller" /\ PollerInCall)

\* C8: neither thread waits for the mutex the other holds while the other
\* is in a call on the session bus.
C8_NeverBlockOnEachOther ==
    /\ ~(p_pc = "lock" /\ pref_lock = "dispatcher" /\ DispatcherInCall)
    /\ ~(d_pc = "lock" /\ pref_lock = "poller" /\ PollerInCall)

\* C9: a command is applied to the session resolved in the same iteration
\* of the dispatcher loop, never to a handle an earlier iteration left.
C9_NoStaleHandle == \A i \in DOMAIN applied : applied[i].fresh

\* C10: a poller iteration that resolved no session sends the empty snapshot
\* whose title is "No media playing".
C10_UnresolvedSendsEmptySnapshot ==
    (p_pc = "send" /\ p_player = None) =>
        p_info = MediaInfo("No media playing", "", "", None, "Stopped", None, None)

\* Ids of the commands in a sequence of commands, of dequeue records and of
\* application records.
Ids(seq) == {seq[i].id : i \in DOMAIN seq}
AppliedIds == {applied[i].cmd.id : i \in DOMAIN applied}
Distinct(seq) == \A i, j \in DOMAIN seq : seq[i].id = seq[j].id => i = j

CommandsAccounted ==
    /\ Distinct(command_queue)
    /\ Distinct(dequeued)
    /\ \A i, j \in DOMAIN applied : applied[i].cmd.id = applied[j].cmd.id => i = j
    /\ Ids(command_queue) \cap Ids(dequeued) = {}
    /\ Ids(command_queue) \cup Ids(dequeued) = 1..n_sent
    /\ AppliedIds \subseteq Ids(dequeued)

\* C11: every enqueued command is in the channel or was dequeued, never
\* both and never twice; it is applied to a session at most once; and with
\* the dispatcher loop scheduled fairly it is eventually dequeued.
C11_ExactlyOnce ==
    /\ []CommandsAccounted
    /\ \A id \in 1..MaxCmds : (n_sent >= id) ~> (id \in Ids(dequeued))

C11_Witness ==
    /\ Len(dequeued) = MaxCmds
    /\ command_queue = <<>>
    /\ Len(applied) = 1

\* C12: a command dequeued in an iteration that resolved no session is
\* gone from the channel, was applied to no session and is not applied
\* later; its send had returned Ok.
C12_NoSessionDiscards ==
    \A i \in DOMAIN dequeued :
        ~dequeued[i].resolved =>
            /\ dequeued[i].id \notin Ids(command_queue)
            /\ dequeued[i].id \notin AppliedIds
            /\ \E k \in DOMAIN send_results :
                   send_results[k].id = dequeued[i].id /\ send_results[k].result = "Ok"

SendResultsMatch ==
    \A k \in DOMAIN send_results :
        LET r == send_results[k]
        IN IF r.alive THEN r.result = "Ok" /\ r.id \in 1..n_sent
           ELSE r.result = "Err" /\ r.id = 0

\* The step of a play_pause/next/previous/seek call.
SendReturns == send_results' # send_results

\* C13: a call made after command_receiver was dropped returns Err and one
\* made while it exists returns Ok; the call returns with its command still
\* in the channel, not applied, and leaves the dispatcher thread where it was.
C13_SendResult ==
    /\ []SendResultsMatch
    /\ [][SendReturns =>
            /\ applied' = applied /\ dequeued' = dequeued /\ d_pc' = d_pc
            /\ (command_receiver_alive => command_queue' # <<>>)]_vars

C13_Witness ==
    /\ Len(send_results) = 2
    /\ send_results[1].result = "Ok"
    /\ send_results[2].result = "Err"
    /\ ~command_receiver_alive

\* C14: the poller loop has left its loop only if the receiver of its
\* channel is dropped; with the receiver dropped, the send it is at is its
\* last step; with the receiver there, a send puts exactly one snapshot into
\* the channel and the loop goes round again.
C14_PollerStopsWithReceiver ==
    /\ [](p_pc = "done" => ~info_receiver_alive)
    /\ [][p_pc = "send" /\ ~info_receiver_alive => p_pc' \in {"send", "done"}]_vars
    /\ [][p_pc = "send" /\ p_pc' # "send" /\ info_receiver_alive =>
            p_pc' = "finder" /\ produced' = Append(produced, p_info)]_vars

C14_Witness ==
    /\ p_pc = "done"
    /\ Len(produced) >= 2
    /\ \E i \in DOMAIN produced : produced[i] = unresolved_info

\* C15: what the reconciliation has processed is, in order and without gap
\* or repetition, the beginning of what the poller has sent, and what it has
\* not processed yet is what waits in the channel.
C15_InOrder ==
    /\ Len(processed) <= Len(produced)
    /\ processed = SubSeq(produced, 1, Len(processed))
    /\ info_receiver_alive => processed \o info_channel = produced

C15_Witness ==
    /\ Len(trace) = 2
    /\ trace[1].info # trace[2].info
    /\ Len(processed) >= 3
    /\ info_channel # <<>>

NewestFirst ==
    \A i \in 1..(Len(history) - 1) : history[i].timestamp >= history[i + 1].timestamp

\* What is left of h when one more entry goes in front of it.
KeptOf(h) == IF Len(h) >= HistoryCapacity THEN SubSeq(h, 1, HistoryCapacity - 1) ELSE h

\* C16: the history never has more than 50 entries; it is ordered newest
\* first; an append puts the new entry in front and, at 50 entries, drops
\* the one at the back.
C16_HistoryBounded ==
    /\ [](Len(history) <= HistoryCapacity /\ NewestFirst)
    /\ [][history' # history =>
            /\ history'[1].timestamp = now'
            /\ Tail(history') = KeptOf(history)]_vars

C16_Witness ==
    /\ Len(processed) > HistoryCapacity + 1
    /\ Len(history) = HistoryCapacity
    /\ history[HistoryCapacity].timestamp = (Len(processed) - HistoryCapacity + 1) * TickMs

InUnitInterval(x) == x.den > 0 /\ FracLe(FracZero, x) /\ FracLe(x, FracOne)

\* C17: the value the progress ring holds is within [0, 1], and the value
\* a snapshot without length, without position or with length zero leaves
\* in it is 0.
C17_ProgressInUnit ==
    /\ InUnitInterval(progress)
    /\ trace # <<>> => progress = trace[Len(trace)].progress_after
    /\ \A i \in DOMAIN trace :
           LET info == trace[i].info
           IN /\ InUnitInterval(trace[i].progress_after)
              /\ (info.length = None \/ info.position = None \/ info.length = Some(0))
                     => FracEq(trace[i].progress_after, FracZero)

C17_Witness ==
    /\ Len(processed) = 2
    /\ processed[1].length = Some(0) /\ IsSome(processed[1].position)
    /\ processed[2].position = Some(4000) /\ processed[2].length = Some(1500)
    /\ FracEq(progress, FracOne)

\* The snapshot processed just before the i-th one of the last tick, if any.
IndexOf(i) == Len(processed) - Len(trace) + i
HasPrev(i) == IndexOf(i) > 1
Prev(i) == processed[IndexOf(i) - 1]

\* The i-th snapshot of the last tick has no art reference, the one before
\* it had a URL, and title, artist and status are the same in both.
ArtWentAway(i) ==
    /\ HasPrev(i)
    /\ art_kind(Prev(i).art_url) # "absent"
    /\ trace[i].info.art_url = None
    /\ trace[i].info.title = Prev(i).title
    /\ trace[i].info.artist = Prev(i).artist
    /\ trace[i].info.status = Prev(i).status

\* C18: a snapshot whose art reference went from a URL to None, title,
\* artist and status as before, leaves no art displayed and the art
\* container hidden, and adds nothing to the history.
C18_ArtToNoneClears ==
    \A i \in DOMAIN trace :
        ArtWentAway(i) =>
            /\ trace[i].album_art_after = None
            /\ ~trace[i].art_visible_after
            /\ trace[i].history_after = trace[i].before.history

C18_Witness ==
    \E i \in DOMAIN trace :
        /\ ArtWentAway(i)
        /\ trace[i].album_art_before = Prev(i).art_url
        /\ i = Len(trace) /\ album_art = None /\ ~art_visible

\* C19: after a snapshot that forced an art update, the stored art
\* reference (last_art_url) is that snapshot's art reference, None included.
C19_StoredArtIsSnapshotArt ==
    \A i \in DOMAIN trace :
        trace[i].force => trace[i].last_art_url_after = trace[i].info.art_url

\* The art reference of the snapshot processed before the i-th one of the
\* last tick; None before the first, as build_ui sets last_art_url up.
LastSeenArt(i) == IF HasPrev(i) THEN Prev(i).art_url ELSE None

\* C20: url_changed is true exactly for a snapshot whose art reference
\* differs from that of the snapshot processed before it, and such a
\* snapshot forces an art update.
C20_UrlChangedIffDiffers ==
    \A i \in DOMAIN trace :
        /\ trace[i].url_changed <=> (trace[i].info.art_url # LastSeenArt(i))
        /\ (trace[i].info.art_url # LastSeenArt(i)) => trace[i].force

\* The i-th snapshot of the last tick entered the art branch of
\* update_ui_widgets with its own art reference.
AttemptFor(i) ==
    \E k \in DOMAIN attempts :
        attempts[k].n = IndexOf(i) /\ attempts[k].art_url = trace[i].info.art_url

\* The i-th snapshot of the last tick differs from ObservedState in title
\* or artist and carries the stored art reference.
SameArtNewTrack(i) ==
    /\ (trace[i].info.title # trace[i].before.last_title
           \/ trace[i].info.artist # trace[i].before.last_artist)
    /\ trace[i].info.art_url = trace[i].before.last_art_url

\* C21: a snapshot whose title or artist differs from ObservedState forces
\* an art update for its art reference even when that reference is the
\* stored one.
C21_TrackChangeRefetches ==
    \A i \in DOMAIN trace : SameArtNewTrack(i) => trace[i].force /\ AttemptFor(i)

C21_Witness ==
    \E i \in DOMAIN trace :
        /\ SameArtNewTrack(i)
        /\ trace[i].before.initial_load_done
        /\ art_kind(trace[i].info.art_url) = "remote"
        /\ AttemptFor(i)

\* The history after one more entry for info has gone in front of h: that
\* entry carries info's status, title and artist, and below it is h, less
\* its last entry when h was full.
PushedOne(h_after, h, info) ==
    /\ h_after # <<>>
    /\ h_after[1].status = info.status
    /\ h_after[1].title = info.title
    /\ h_after[1].artist = info.artist
    /\ Tail(h_after) = KeptOf(h)

\* C22: a snapshot that differs from ObservedState in status, title or
\* artist pushes exactly one entry with its values at the front of the
\* history and becomes ObservedState; one that differs in none of them
\* leaves ObservedState and the history as they were.
C22_HistoryFrame ==
    \A i \in DOMAIN trace :
        LET s == trace[i]
        IN IF SameObserved(s.info, s.before)
           THEN /\ s.history_after = s.before.history
                /\ s.after.last_title = s.before.last_title
                /\ s.after.last_artist = s.before.last_artist
                /\ s.after.last_status = s.before.last_status
           ELSE /\ PushedOne(s.history_after, s.before.history, s.info)
                /\ SameObserved(s.info, s.after)

C22_Witness ==
    /\ Len(trace) = 2
    /\ ~SameObserved(trace[1].info, trace[1].before)
    /\ trace[1].info.status # trace[1].before.last_status
    /\ trace[1].before.history # <<>>
    /\ SameObserved(trace[2].info, trace[2].before)
    /\ Len(history) = Len(trace[1].before.history) + 1
    /\ last_status = trace[1].info.status

\* What a run of the reconciliation leaves behind, without the times at
\* which it happened.
StripHistory(h) ==
    [i \in DOMAIN h |-> [status |-> h[i].status, title |-> h[i].title,
                         artist |-> h[i].artist]]
StripAttempts(a) ==
    [i \in DOMAIN a |-> [n |-> a[i].n, art_url |-> a[i].art_url, kind |-> a[i].kind,
                         loaded |-> a[i].loaded]]
Outcome(st) ==
    [last_art_url |-> st.last_art_url, last_status |-> st.last_status,
     last_title |-> st.last_title, last_artist |-> st.last_artist,
     initial_load_done |-> st.initial_load_done, history |-> StripHistory(st.history),
     album_art |-> st.album_art, art_visible |-> st.art_visible, labels |-> st.labels,
     progress |-> st.progress, processed |-> st.processed,
     attempts |-> StripAttempts(st.attempts)]

\* The state a step leads to, as a record like UiState.
UiStateNext ==
    [last_art_url |-> last_art_url', last_status |-> last_status',
     last_title |-> last_title', last_artist |-> last_artist',
     initial_load_done |-> initial_load_done', history |-> history',
     album_art |-> album_art', art_visible |-> art_visible', labels |-> labels',
     progress |-> progress', processed |-> processed', attempts |-> attempts',
     trace |-> trace']

\* The snapshots of chan processed one per tick, the i-th at the i-th
\* firing after t, with the same art load outcomes.
RECURSIVE OnePerTick(_, _, _, _, _)
OnePerTick(st, chan, oc, i, t) ==
    IF i > Len(chan) THEN st
    ELSE OnePerTick(Drain(st, <<chan[i]>>, <<oc[i]>>, 1, t + i * TickMs), chan, oc, i + 1, t)

\* The art load outcomes of a tick, read off its trace.
OutcomesOf(tr) == [i \in DOMAIN tr |-> tr[i].art_visible_after]

\* All snapshots of the tick but the last are equal and match ObservedState
\* as it was before the tick.
BurstOfOld(tr) ==
    \A i \in 1..(Len(tr) - 1) : tr[i].info = tr[1].info /\ SameObserved(tr[i].info, UiState)

\* C23: a tick that drains k snapshots leaves the same ObservedState, the
\* same history entries and the same art attempts as k ticks that process
\* them one by one; and a burst whose snapshots but the last match the old
\* ObservedState logs exactly the one change from old to last, if there is one.
C23_BatchIndependent ==
    [][now' # now =>
        /\ Outcome(UiStateNext)
              = Outcome(OnePerTick(UiState, info_channel, OutcomesOf(trace'), 1, now))
        /\ (trace' # <<>> /\ BurstOfOld(trace')) =>
              IF SameObserved(trace'[Len(trace')].info, UiState)
              THEN history' = history
              ELSE PushedOne(history', history, trace'[Len(trace')].info)]_vars

C23_Witness ==
    /\ Len(trace) = 2
    /\ trace[1].before.initial_load_done
    /\ SameObserved(trace[1].info, trace[1].before)
    /\ ~SameObserved(trace[2].info, trace[2].before)
    /\ trace[2].force /\ trace[2].art_visible_after
    /\ Len(history) = 2

\* C24: a firing of the timer processes every snapshot that is in the
\* channel, in one go, and leaves the channel empty.
C24_TickDrainsChannel ==
    [][now' # now =>
        /\ info_channel' = <<>>
        /\ processed' = processed \o info_channel
        /\ Len(trace') = Len(info_channel)]_vars

C24_Witness ==
    /\ Len(trace) = MaxBuffered
    /\ Len(processed) > MaxBuffered
    /\ info_channel = <<>>

\* The dispatcher's step from try_recv back to the top of its loop.
EndsIteration == d_pc = "recv" /\ d_pc' = "finder"

\* C25: an iteration of the dispatcher loop goes once through the
\* resolution and then once through try_recv; that step is never blocked,
\* takes the oldest command if there is one and only that one, and no other
\* step of the iteration takes a command.
C25_OnePerIteration ==
    /\ [](d_pc = "recv" => ENABLED D_TryRecv)
    /\ [][d_pc' = "recv" /\ d_pc # "recv" =>
            d_pc \in {"finder", "by_name", "fallback", "active"}]_vars
    /\ [][d_pc' = "finder" => d_pc \in {"finder", "recv"}]_vars
    /\ [][EndsIteration =>
            IF command_queue = <<>>
            THEN command_queue' = <<>> /\ dequeued' = dequeued
            ELSE /\ command_queue' = Tail(command_queue)
                 /\ Len(dequeued') = Len(dequeued) + 1
                 /\ dequeued'[Len(dequeued')].id = Head(command_queue).id]_vars
    /\ [][~EndsIteration => dequeued' = dequeued]_vars

C25_Witness ==
    /\ Len(send_results) = MaxCmds
    /\ Len(dequeued) = 1
    /\ Len(command_queue) = MaxCmds - 1
    /\ d_pc = "finder"

\* The metadata entries of a read, each with the default the claim names.
HasMetadata(rd) == IsSome(rd.metadata)
TitleOr(rd, d) ==
    IF HasMetadata(rd) /\ IsSome(Unwrap(rd.metadata).title)
    THEN Unwrap(Unwrap(rd.metadata).title) ELSE d
ArtistOr(rd, d) ==
    IF HasMetadata(rd) /\ IsSome(Unwrap(rd.metadata).artists)
         /\ Len(Unwrap(Unwrap(rd.metadata).artists)) > 0
    THEN Unwrap(Unwrap(rd.metadata).artists)[1] ELSE d
AlbumOr(rd, d) ==
    IF HasMetadata(rd) /\ IsSome(Unwrap(rd.metadata).album)
    THEN Unwrap(Unwrap(rd.metadata).album) ELSE d
ArtOf(rd) == IF HasMetadata(rd) THEN Unwrap(rd.metadata).art_url ELSE None
StatusOf(rd) == IF IsSome(rd.status) THEN Unwrap(rd.status) ELSE "Stopped"

ClampedQuotient(position, length) ==
    IF position >= length THEN FracOne ELSE Frac(position, length)

\* C27: with position and length present and length not zero, the value in
\* the progress ring is position / length clamped to [0, 1], sub-second
\* lengths included.
C27_RatioIsQuotient ==
    \A i \in DOMAIN trace :
        LET info == trace[i].info
        IN (IsSome(info.position) /\ IsSome(info.length) /\ Unwrap(info.length) # 0) =>
              FracEq(trace[i].progress_after,
                     ClampedQuotient(Unwrap(info.position), Unwrap(info.length)))

ObservedState == [last_title |-> last_title, last_artist |-> last_artist,
                  last_status |-> last_status]

SameEntry(a, b) == a.status = b.status /\ a.title = b.title /\ a.artist = b.artist

\* C28: ObservedState is the title, artist and status of the snapshot
\* processed last; the front entry of a non-empty history carries
\* ObservedState; two neighbours in the history are never the same in
\* status, title and artist.
C28_ObservedIsLastSnapshot ==
    /\ processed # <<>> => SameObserved(processed[Len(processed)], ObservedState)
    /\ \A i \in DOMAIN trace : SameObserved(trace[i].info, trace[i].after)
    /\ history # <<>> =>
          /\ history[1].status = last_status
          /\ history[1].title = last_title
          /\ history[1].artist = last_artist
    /\ \A i \in 1..(Len(history) - 1) : ~SameEntry(history[i], history[i + 1])

C28_Witness ==
    /\ Len(processed) = MaxSnapshots
    /\ Len(history) = 2
    /\ history[1].title # history[2].title
    /\ processed[Len(processed)] = processed[Len(processed) - 1]

\* The commands whose send completed, in the order the sends completed.
Enqueued == SelectSeq(send_results, LAMBDA r : r.alive)

\* C29: the dispatcher takes the commands off the channel in the order
\* their sends completed, none before an earlier one, and applies them to
\* sessions in that order; the commands still waiting are the later ones,
\* in send order.
C29_CommandsInOrder ==
    /\ \A k \in DOMAIN dequeued : dequeued[k].id = Enqueued[k].id
    /\ \A k \in DOMAIN command_queue :
          command_queue[k].id = Enqueued[Len(dequeued) + k].id
    /\ \A i, j \in DOMAIN applied : i < j => applied[i].cmd.id < applied[j].cmd.id
    /\ \A i, j \in DOMAIN Enqueued : i < j => Enqueued[i].id < Enqueued[j].id

C29_Witness ==
    /\ Len(applied) = MaxCmds
    /\ applied[1].cmd.op # applied[2].cmd.op
    /\ Len(dequeued) = MaxCmds

\* C30: the container is shown, and a picture is set, only when the last
\* forced art update had a non-empty reference whose fetch and decoding
\* succeeded; a forced update whose reference is absent or empty, or whose
\* load failed, leaves no picture and the container hidden; a snapshot
\* that does not force an update leaves both as they were.
C30_ArtVisibility ==
    /\ (art_visible \/ IsSome(album_art)) =>
          /\ attempts # <<>>
          /\ attempts[Len(attempts)].kind # "absent"
          /\ attempts[Len(attempts)].fetched
    /\ \A i \in DOMAIN trace :
          /\ (trace[i].force /\ ~trace[i].fetched) =>
                ~IsSome(trace[i].album_art_after) /\ ~trace[i].art_visible_after
          /\ ~trace[i].force =>
                /\ trace[i].album_art_after = trace[i].album_art_before
                /\ trace[i].art_visible_after = trace[i].art_visible_before

C30_Witness ==
    /\ Len(trace) = 2
    /\ ~trace[1].force /\ trace[1].art_visible_before /\ trace[1].art_visible_after
    /\ trace[2].force /\ art_kind(trace[2].info.art_url) # "absent"
    /\ ~trace[2].fetched
    /\ ~art_visible /\ ~IsSome(album_art)

\* The branch a loop is in was chosen from the preference as it is now.
BranchMatchesPreference(pc) ==
    /\ pc \in {"by_name", "fallback"} => IsSome(preferred_player)
    /\ pc = "active" => preferred_player = None

\* C31: the preference is written and read under one mutex.  It does not
\* change while a loop holds the guard; a resolution that starts reads the
\* value the last set_preferred_player call left, takes its branch from
\* it, and a lookup by name that succeeds binds the session of that name,
\* in the dispatcher and in the poller alike.
C31_PreferenceAtomic ==
    /\ [][pref_lock # "free" => preferred_player' = preferred_player]_vars
    /\ [](BranchMatchesPreference(d_pc) /\ BranchMatchesPreference(p_pc))
    /\ [][(d_pc = "lock" /\ d_pc' # "lock") => d_pc' = after_lock(preferred_player)]_vars
    /\ [][(p_pc = "lock" /\ p_pc' # "lock") => p_pc' = after_lock(preferred_player)]_vars
    /\ [][(d_pc = "by_name" /\ d_pc' = "recv") => player' = preferred_player']_vars
    /\ [][(p_pc = "by_name" /\ p_pc' = "info") => p_player' = preferred_player']_vars

C31_Witness ==
    /\ IsSome(preferred_player)
    /\ d_pc = "recv" /\ d_path = "named" /\ player = preferred_player
    /\ p_pc = "info" /\ p_path = "named" /\ p_player = preferred_player
    /\ pref_lock = "poller"

\* The mutex has one holder at most, and a loop holds it exactly from its
\* lock() to the end of its resolution.
OneHolder ==
    /\ (pref_lock = "dispatcher") <=> DispatcherInCall
    /\ (pref_lock = "poller") <=> PollerInCall
    /\ ~(DispatcherInCall /\ PollerInCall)

\* try_recv and send are made without the guard and neither of them waits:
\* try_recv returns on an empty channel, send has room in any channel.
NoChannelWaitUnderLock ==
    /\ d_pc = "recv" => (pref_lock # "dispatcher" /\ ENABLED D_TryRecv)
    /\ p_pc = "send" => (pref_lock # "poller" /\ ENABLED P_Send(Len(info_channel) + 1))

\* A loop that cannot step is in lock(), and the holder of the mutex is
\* the other loop, in a call that can return.
WaitsOnlyForRunningHolder ==
    /\ ~ENABLED Dispatcher =>
          (d_pc = "lock" /\ pref_lock = "poller" /\ ENABLED PollerLoop(MaxChan))
    /\ ~ENABLED PollerLoop(Len(info_channel) + 1) =>
          (p_pc = "lock" /\ pref_lock = "dispatcher" /\ ENABLED Dispatcher)

\* C32: no deadlock.  The mutex has one holder, no thread holds it at a
\* channel operation, a loop that cannot step waits in lock() for the
\* other loop, which can step, and the UI thread can step whenever the
\* mutex is free; every loop that waits in lock() gets the mutex, and the
\* mutex is free again and again for the UI thread's lock().
C32_DeadlockFree ==
    /\ [](OneHolder /\ NoChannelWaitUnderLock /\ WaitsOnlyForRunningHolder)
    /\ [](ENABLED Dispatcher \/ ENABLED PollerLoop(MaxChan))
    /\ [](lock_returns(pref_lock) => ENABLED UiPreference)
    /\ (d_pc = "lock") ~> (d_pc # "lock")
    /\ (p_pc = "lock") ~> (p_pc # "lock")
    /\ []<>lock_returns(pref_lock)

C32_Witness ==
    /\ d_pc = "lock"
    /\ pref_lock = "poller" /\ p_pc = "info"
    /\ ~ENABLED Dispatcher
    /\ info_channel # <<>>
    /\ processed # <<>>
====
